---- MODULE Spec2Model ----
(***************************************************************************)
(* strloin: copy-on-write slices of a string.                              *)
(*   ranges.rs   Ranges (push, push_unchecked, clear, from_iter, extend)   *)
(*               and collapse_ranges                                       *)
(*   strloin.rs  Strloin (from_ranges, from_ranges_obj)                    *)
(* A range is a record [start, end] of byte offsets (Range<usize>); a      *)
(* source is a str, modelled as its UTF-8 bytes; an extraction result is   *)
(* a Cow (Borrowed or Owned) or a panic of the slicing step.               *)
(***************************************************************************)
EXTENDS Integers, Sequences, FiniteSets, TLC

\* ------------------------------------------------------------------ bounds
\* longest list of ranges handed to the library
MaxLen == 3
\* largest byte offset used as the start or the end of a range
MaxOff == 2

\* ------------------------------------------------------------- input sets
\* "a", "abc" and "é" (U+00E9, two bytes) as UTF-8
Sources == { <<97>>, <<97, 98, 99>>, <<195, 169>> }

Offsets == 0 .. MaxOff

\* every Range<usize> over the offsets, start > end included
RangeSet == [start : Offsets, end : Offsets]

\* every list of at most n ranges
ListsUpTo(n) == UNION { [1 .. k -> RangeSet] : k \in 0 .. n }

mkRange(s, e) == [start |-> s, end |-> e]

\* ------------------------------------------------------------- ranges.rs
\* Ranges::new / Vec::new
new == <<>>

\* Ranges::with_capacity: an empty Vec, the capacity is not observable
with_capacity == <<>>

\* Ranges::from_range
from_range(range) == <<range>>

\* push without the two non-degenerate guards of the merge
push_noguard(rs, range) ==
  IF rs # <<>> /\ range.start = rs[Len(rs)].end
  THEN [rs EXCEPT ![Len(rs)].end = range.end]
  ELSE Append(rs, range)

\* push that never merges
push_append(rs, range) == Append(rs, range)

\* push that merges a range starting at or before the end of the last entry
push_overlap(rs, range) ==
  IF rs # <<>>
     /\ range.start <= rs[Len(rs)].end
     /\ rs[Len(rs)].start < rs[Len(rs)].end
     /\ range.start < range.end
  THEN [rs EXCEPT ![Len(rs)].end = range.end]
  ELSE Append(rs, range)

\* push that merges an empty range into a non-empty last entry
push_empty(rs, range) ==
  IF rs # <<>>
     /\ range.start = rs[Len(rs)].end
     /\ rs[Len(rs)].start < rs[Len(rs)].end
     /\ range.start <= range.end
  THEN [rs EXCEPT ![Len(rs)].end = range.end]
  ELSE Append(rs, range)

\* Ranges::push
push(rs, range) ==
  IF rs # <<>>
     /\ range.start = rs[Len(rs)].end
     /\ rs[Len(rs)].start < rs[Len(rs)].end
     /\ range.start < range.end
  THEN [rs EXCEPT ![Len(rs)].end = range.end]
  ELSE Append(rs, range)

\* push_unchecked that merges a range starting at or before the end of the last entry
push_unchecked_overlap(rs, range) ==
  IF rs # <<>> /\ range.start <= rs[Len(rs)].end
  THEN [rs EXCEPT ![Len(rs)].end = range.end]
  ELSE Append(rs, range)

\* Ranges::push_unchecked
push_unchecked(rs, range) ==
  IF rs # <<>> /\ range.start = rs[Len(rs)].end
  THEN [rs EXCEPT ![Len(rs)].end = range.end]
  ELSE Append(rs, range)

\* Ranges::clear
clear(rs) == <<>>

\* extend that walks the iterator back to front
RECURSIVE extend_reversed(_, _)
extend_reversed(rs, iter) ==
  IF iter = <<>> THEN rs
  ELSE extend_reversed(push(rs, iter[Len(iter)]), SubSeq(iter, 1, Len(iter) - 1))

\* impl Extend<Range<usize>> for Ranges: for range in iter { self.push(range) }
RECURSIVE extend(_, _)
extend(rs, iter) ==
  IF iter = <<>> THEN rs
  ELSE extend(push(rs, Head(iter)), Tail(iter))

\* impl FromIterator<Range<usize>> for Ranges
RECURSIVE from_iter_loop(_, _)
from_iter_loop(rs, iter) ==
  IF iter = <<>> THEN rs
  ELSE from_iter_loop(push(rs, Head(iter)), Tail(iter))

from_iter(iter) == from_iter_loop(with_capacity, iter)

\* Option<Range<usize>>
None == [some |-> FALSE, range |-> mkRange(0, 0)]
Some(range) == [some |-> TRUE, range |-> range]

\* the for loop of collapse_ranges: rs is the rest of the iterator
RECURSIVE collapse_loop(_, _, _)
collapse_loop(start, end, rs) ==
  IF rs = <<>> THEN Some(mkRange(start, end))
  ELSE LET r == Head(rs)
       IN  IF r.start # end \/ r.end < r.start
           THEN None
           ELSE collapse_loop(start, r.end, Tail(rs))

\* collapse_ranges without the start > end check of the first range
collapse_ranges_nofirst(rs) ==
  IF rs = <<>> THEN Some(mkRange(0, 0))
  ELSE collapse_loop(rs[1].start, rs[1].end, Tail(rs))

\* collapse_ranges
collapse_ranges(rs) ==
  IF rs = <<>> THEN Some(mkRange(0, 0))
  ELSE IF rs[1].start > rs[1].end THEN None
  ELSE collapse_loop(rs[1].start, rs[1].end, Tail(rs))

\* ------------------------------------------------------------ strloin.rs
\* str::is_char_boundary: 0 and len are boundaries, an offset beyond len is
\* not, any other offset is one unless its byte is a continuation byte
is_char_boundary(src, i) ==
  \/ i = 0
  \/ i = Len(src)
  \/ i < Len(src) /\ (src[i + 1] < 128 \/ src[i + 1] >= 192)

\* does &self.source[range] panic
slice_panics(src, range) ==
  \/ range.start > range.end
  \/ range.end > Len(src)
  \/ ~ is_char_boundary(src, range.start)
  \/ ~ is_char_boundary(src, range.end)

\* the bytes of &self.source[range] when it does not panic
slice(src, range) == SubSeq(src, range.start + 1, range.end)

\* Cow<str>, or the panic of the call
Borrowed(text) == [kind |-> "Borrowed", text |-> text]
Owned(text) == [kind |-> "Owned", text |-> text]
Panic == [kind |-> "panic", text |-> <<>>]

\* ranges.iter().map(|r| &self.source[r.clone()]).collect::<String>()
RECURSIVE collect(_, _)
collect(src, rs) ==
  IF rs = <<>> THEN <<>>
  ELSE slice(src, Head(rs)) \o collect(src, Tail(rs))

collect_panics(src, rs) == \E i \in 1 .. Len(rs) : slice_panics(src, rs[i])

\* from_ranges without the borrowing fast path
from_ranges_owned(src, rs) ==
  IF collect_panics(src, rs) THEN Panic ELSE Owned(collect(src, rs))

\* Strloin::from_ranges
from_ranges(src, rs) ==
  LET c == collapse_ranges(rs)
  IN  IF c.some
      THEN IF slice_panics(src, c.range) THEN Panic ELSE Borrowed(slice(src, c.range))
      ELSE IF collect_panics(src, rs) THEN Panic ELSE Owned(collect(src, rs))

\* from_ranges_obj whose single-entry arm yields "" where the slice is bad
from_ranges_obj_get(src, rs) ==
  IF Len(rs) = 0 THEN Borrowed(<<>>)
  ELSE IF Len(rs) = 1
  THEN IF slice_panics(src, rs[1]) THEN Borrowed(<<>>) ELSE Borrowed(slice(src, rs[1]))
  ELSE IF collect_panics(src, rs) THEN Panic ELSE Owned(collect(src, rs))

\* Strloin::from_ranges_obj
from_ranges_obj(src, rs) ==
  IF Len(rs) = 0 THEN Borrowed(<<>>)
  ELSE IF Len(rs) = 1
  THEN IF slice_panics(src, rs[1]) THEN Panic ELSE Borrowed(slice(src, rs[1]))
  ELSE IF collect_panics(src, rs) THEN Panic ELSE Owned(collect(src, rs))

\* ----------------------------------------------------------------- state
VARIABLES
  source,   \* Strloin.source
  input,    \* the ranges handed to the Ranges since it was built or cleared
  ranges,   \* Ranges.ranges
  op,       \* the last operation called
  result    \* what the last from_ranges, from_ranges_obj or collapse_ranges returned

vars == <<source, input, ranges, op, result>>

NoResult == [kind |-> "none", text |-> <<>>]

\* Strloin::new(source) and Ranges::new()
Init ==
  /\ source \in Sources
  /\ input = <<>>
  /\ ranges = new
  /\ op = "new"
  /\ result = NoResult

New ==
  /\ op # "new"
  /\ ranges' = new
  /\ input' = <<>>
  /\ op' = "new"
  /\ result' = NoResult
  /\ UNCHANGED source

FromRange(range) ==
  /\ input = <<>>
  /\ ranges' = from_range(range)
  /\ input' = <<range>>
  /\ op' = "from_range"
  /\ result' = NoResult
  /\ UNCHANGED source

FromIter(iter) ==
  /\ input = <<>>
  /\ ranges' = from_iter(iter)
  /\ input' = input \o iter
  /\ op' = "from_iter"
  /\ result' = NoResult
  /\ UNCHANGED source

Push(range) ==
  /\ Len(input) < MaxLen
  /\ ranges' = push(ranges, range)
  /\ input' = Append(input, range)
  /\ op' = "push"
  /\ result' = NoResult
  /\ UNCHANGED source

PushUnchecked(range) ==
  /\ Len(input) < MaxLen
  /\ ranges' = push_unchecked(ranges, range)
  /\ input' = Append(input, range)
  /\ op' = "push_unchecked"
  /\ result' = NoResult
  /\ UNCHANGED source

Extend(iter) ==
  /\ iter # <<>>
  /\ Len(input) + Len(iter) <= MaxLen
  /\ ranges' = extend(ranges, iter)
  /\ input' = input \o iter
  /\ op' = "extend"
  /\ result' = NoResult
  /\ UNCHANGED source

Clear ==
  /\ input # <<>>
  /\ ranges' = clear(ranges)
  /\ input' = <<>>
  /\ op' = "clear"
  /\ result' = NoResult
  /\ UNCHANGED source

\* strloin.from_ranges(&input)
FromRanges ==
  /\ result = NoResult
  /\ result' = from_ranges(source, input)
  /\ op' = "from_ranges"
  /\ UNCHANGED <<source, input, ranges>>

\* strloin.from_ranges_obj(&ranges)
FromRangesObj ==
  /\ result = NoResult
  /\ result' = from_ranges_obj(source, ranges)
  /\ op' = "from_ranges_obj"
  /\ UNCHANGED <<source, input, ranges>>

\* collapse_ranges(&input)
CollapseRanges ==
  /\ result = NoResult
  /\ result' = collapse_ranges(input)
  /\ op' = "collapse_ranges"
  /\ UNCHANGED <<source, input, ranges>>

\* the checked interface: every way to build a Ranges but push_unchecked
Next ==
  \/ New
  \/ \E range \in RangeSet : FromRange(range)
  \/ \E iter \in ListsUpTo(MaxLen - Len(input)) : FromIter(iter)
  \/ \E range \in RangeSet : Push(range)
  \/ \E iter \in ListsUpTo(MaxLen - Len(input)) : Extend(iter)
  \/ Clear
  \/ FromRanges
  \/ FromRangesObj
  \/ CollapseRanges

Spec == Init /\ [][Next]_vars

\* a Ranges filled by any mix of push and push_unchecked, then extracted
NextUnchecked ==
  \/ \E range \in RangeSet : Push(range)
  \/ \E range \in RangeSet : PushUnchecked(range)
  \/ FromRangesObj

SpecUnchecked == Init /\ [][NextUnchecked]_vars

\* a Ranges filled by push_unchecked alone, then extracted
NextPushUnchecked ==
  \/ \E range \in RangeSet : PushUnchecked(range)
  \/ FromRangesObj

SpecPushUnchecked == Init /\ [][NextPushUnchecked]_vars

\* ------------------------------------------------ vocabulary of the claims
\* start <= end <= length of the source
InBounds(src, r) == r.start <= r.end /\ r.end <= Len(src)

AllInBounds(src, rs) == \A i \in 1 .. Len(rs) : InBounds(src, rs[i])

\* both offsets of the range fall between two characters of the source
OnCharBoundaries(src, r) ==
  /\ is_char_boundary(src, r.start)
  /\ is_char_boundary(src, r.end)

AllOnCharBoundaries(src, rs) == \A i \in 1 .. Len(rs) : OnCharBoundaries(src, rs[i])

\* the bytes of the source in [r.start, r.end)
Bytes(src, r) == [i \in 1 .. (r.end - r.start) |-> src[r.start + i]]

\* the concatenation, in list order, of the bytes of each range
RECURSIVE Concat(_, _)
Concat(src, rs) ==
  IF Len(rs) = 0 THEN <<>>
  ELSE Concat(src, SubSeq(rs, 1, Len(rs) - 1)) \o Bytes(src, rs[Len(rs)])

\* every range is valid and every range starts where the one before it ends
Chains(rs) ==
  /\ \A i \in 1 .. Len(rs) : rs[i].start <= rs[i].end
  /\ \A i \in 1 .. Len(rs) - 1 : rs[i + 1].start = rs[i].end

\* the region a chaining list covers, [0,0) for the empty list
Region(rs) ==
  IF rs = <<>> THEN mkRange(0, 0) ELSE mkRange(rs[1].start, rs[Len(rs)].end)

\* b could be merged into a: contiguous and both non-degenerate
Mergeable(a, b) == b.start = a.end /\ a.start < a.end /\ b.start < b.end

\* push applied to each range of xs in order, starting from rs
RECURSIVE PushEach(_, _)
PushEach(rs, xs) ==
  IF Len(xs) = 0 THEN rs
  ELSE push(PushEach(rs, SubSeq(xs, 1, Len(xs) - 1)), xs[Len(xs)])

\* the result from_ranges is claimed to give
ExpectedFromRanges(src, rs) ==
  IF Chains(rs) THEN Borrowed(Bytes(src, Region(rs))) ELSE Owned(Concat(src, rs))

\* ------------------------------------------------------------------ claims
\* C1 as stated: for every list whose ranges satisfy start <= end <= len,
\* from_ranges is borrowed iff collapse_ranges succeeds, the borrowed result is
\* the source slice [first.start, last.end), and otherwise the result is the
\* owned concatenation of the slices in input order.
C1_AsStated ==
  (op = "from_ranges" /\ AllInBounds(source, input)) =>
    /\ (result.kind = "Borrowed") <=> collapse_ranges(input).some
    /\ result = ExpectedFromRanges(source, input)

\* C1 amended: the same, for lists whose ranges also start and end on
\* character boundaries of the source.
C1_FromRanges ==
  (op = "from_ranges" /\ AllInBounds(source, input) /\ AllOnCharBoundaries(source, input)) =>
    /\ (result.kind = "Borrowed") <=> collapse_ranges(input).some
    /\ result = ExpectedFromRanges(source, input)

C1_Witness ==
  /\ op = "from_ranges"
  /\ Len(input) = 3
  /\ AllInBounds(source, input) /\ AllOnCharBoundaries(source, input)
  /\ result.kind = "Owned"
  /\ Len(result.text) >= 3

\* C2: collapse_ranges returns [0,0) on the empty list, [first.start, last.end)
\* on a list in which every range is valid and every consecutive pair chains,
\* and None on every other list.
C2_Collapse ==
  op = "collapse_ranges" =>
    result = IF Chains(input) THEN Some(Region(input)) ELSE None

C2_Witness ==
  /\ op = "collapse_ranges"
  /\ Len(input) = 3
  /\ Chains(SubSeq(input, 1, 2))
  /\ input[1].start < input[1].end
  /\ ~ Chains(input)
  /\ ~ result.some

\* C3: when some range of the list has start > end or end > len, from_ranges
\* on the list and from_ranges_obj on the set built from it both panic.
C3_AllOrNothing ==
  ( /\ op \in {"from_ranges", "from_ranges_obj"}
    /\ \E i \in 1 .. Len(input) : ~ InBounds(source, input[i]) ) =>
    result.kind = "panic"

C3_Witness ==
  /\ op = "from_ranges_obj"
  /\ Len(input) = 3
  /\ InBounds(source, input[1]) /\ input[1].start < input[1].end
  /\ input[2].start = input[1].end /\ input[2].start > input[2].end
  /\ InBounds(source, input[3])
  /\ result.kind = "panic"

\* C4: push(r) merges r into the last entry (same number of entries, last.end
\* becomes r.end) iff the set is non-empty, r.start = last.end and both the
\* last entry and r are non-degenerate; otherwise it appends r; the entries
\* before the last and the start of the last are unchanged.
C4_Push ==
  [][ op' = "push" =>
        LET r == input'[Len(input')]
            n == Len(ranges)
        IN  IF n > 0 /\ Mergeable(ranges[n], r)
            THEN /\ Len(ranges') = n
                 /\ ranges'[n] = mkRange(ranges[n].start, r.end)
                 /\ \A i \in 1 .. n - 1 : ranges'[i] = ranges[i]
            ELSE /\ Len(ranges') = n + 1
                 /\ ranges'[n + 1] = r
                 /\ \A i \in 1 .. n : ranges'[i] = ranges[i] ]_vars

C4_Witness ==
  /\ op = "push"
  /\ Len(input) = 3
  /\ Len(ranges) = 2
  /\ input[3].start = input[3].end
  /\ ranges[2] = input[3]
  /\ ranges[1] = mkRange(input[1].start, input[2].end)
  /\ ranges[2].start = ranges[1].end

\* C5: no two adjacent stored entries are mergeable.
C5_NoAdjacentMergeable ==
  \A i \in 1 .. Len(ranges) - 1 : ~ Mergeable(ranges[i], ranges[i + 1])

C5_Witness ==
  /\ op = "extend"
  /\ Len(input) = 3
  /\ Len(ranges) = 2
  /\ ranges[2].start = ranges[1].end
  /\ ranges[1].start < ranges[1].end

\* C6 as stated: for a list whose ranges satisfy start <= end <= len,
\* from_ranges_obj on the set pushed from the list is borrowed exactly when
\* from_ranges on the list is borrowed, and owned exactly when it is owned.
C6_SameKind ==
  (op = "from_ranges_obj" /\ AllInBounds(source, input)) =>
    /\ (result.kind = "Borrowed") <=> (from_ranges(source, input).kind = "Borrowed")
    /\ (result.kind = "Owned") <=> (from_ranges(source, input).kind = "Owned")

\* C7 as stated: for a list whose ranges satisfy start <= end <= len,
\* whenever either of from_ranges_obj (on the pushed set) and from_ranges (on
\* the list) returns, both return, with the same text, the concatenation in
\* input order of the slices.
C7_AsStated ==
  ( /\ op = "from_ranges_obj"
    /\ AllInBounds(source, input)
    /\ (result.kind # "panic" \/ from_ranges(source, input).kind # "panic") ) =>
    /\ result.kind # "panic"
    /\ from_ranges(source, input).kind # "panic"
    /\ result.text = from_ranges(source, input).text
    /\ result.text = Concat(source, input)

\* C7 amended: for a list whose ranges satisfy start <= end <= len and lie on
\* character boundaries, from_ranges_obj and from_ranges both return, with the
\* same text, the concatenation in input order of the slices.
C7_SameText ==
  (op = "from_ranges_obj" /\ AllInBounds(source, input) /\ AllOnCharBoundaries(source, input)) =>
    /\ result.kind # "panic"
    /\ from_ranges(source, input).kind # "panic"
    /\ result.text = from_ranges(source, input).text
    /\ result.text = Concat(source, input)

C7_Witness ==
  /\ op = "from_ranges_obj"
  /\ AllInBounds(source, input) /\ AllOnCharBoundaries(source, input)
  /\ Len(input) = 3
  /\ Len(ranges) = 2
  /\ result.kind = "Owned"
  /\ Len(result.text) >= 3

C9_AsStated ==
  AllInBounds(source, input) =>
    /\ \A i \in 1 .. Len(ranges) : ranges[i].start <= ranges[i].end
    /\ op = "from_ranges_obj" =>
         result.kind # "panic" /\ result.text = Concat(source, input)

\* C9 amended: the same, for ranges that also lie on character boundaries.
C9_UncheckedSound ==
  (AllInBounds(source, input) /\ AllOnCharBoundaries(source, input)) =>
    /\ \A i \in 1 .. Len(ranges) : ranges[i].start <= ranges[i].end
    /\ op = "from_ranges_obj" =>
         result.kind # "panic" /\ result.text = Concat(source, input)

C9_Witness ==
  /\ op = "from_ranges_obj"
  /\ AllInBounds(source, input) /\ AllOnCharBoundaries(source, input)
  /\ Len(input) = 3
  /\ Len(ranges) = 1
  /\ input[2].start = input[2].end
  /\ result.kind = "Borrowed"
  /\ Len(result.text) = 2

\* C10: the stored entries are those that push, called on an empty set for
\* each range handed over so far in order, leaves: from_iter and extend act as
\* element-by-element push in iteration order.
C10_BulkIsPush == ranges = PushEach(new, input)

C10_Witness ==
  /\ op = "extend"
  /\ Len(input) = 3
  /\ Len(ranges) = 2
  /\ input[1].start < input[1].end
  /\ ranges[1] = mkRange(input[1].start, input[2].end)
  /\ ranges[2] = input[3]
  /\ input[3].end < input[1].end

====
